---------------------------- MODULE Spec2Model ----------------------------
(***************************************************************************)
(* Model of RetirementCalculator.py: the module-level input validation,    *)
(* montecarlo() and bankrupt_prob().                                       *)
(*                                                                         *)
(* Rates are held the way the data files hold them, in percent; the code   *)
(* converts a percentage p to the decimal p/100 (read_to_list) and computes *)
(* int(x * (1 + p/100)), which is modelled as the quotient of               *)
(* x * (100 + p) by 100 truncated toward zero.  The model's inputs are      *)
(* whole percentages for which the floating-point product of the code and  *)
(* the exact product give the same integer.                                *)
(***************************************************************************)
EXTENDS Integers, Sequences, FiniteSets, TLC

\* ---------------------------------------------------------------- bounds
\* largest number of cases to run that the model enumerates
MaxCases == 3

\* ------------------------------------------------------ program constants
\* read_to_list: line / 100 turns a percentage into a decimal fraction
Percent == 100
\* input check: int(max_years) > 99 is rejected
MaxYearsLimit == 99

\* --------------------------------------------------------------- inputs
\* (returns, infl_rate) as read from the data files, in percent
SeriesPairs ==
    { << <<10, -50, 0>>, <<0, 50, 0>> >>,
      << <<0, 50>>,      <<0, 10, 50>> >>,
      << <<10, 0, -50>>, <<50, 0>> >> }

\* (start_value, withdrawal) as entered by the user
Portfolios ==
    { <<2000000, 80000>>, <<100, 150>>, <<100, 100>>,
      <<101, 100>>, <<300, 100>>, <<0, 0>> }

\* (min_years, most_likely_years, max_years) as entered by the user
YearTriples ==
    { <<0, 1, 2>>, <<1, 2, 3>>,
      <<2, 1, 3>>, <<1, 1, 2>>, <<1, 2, 2>>, <<98, 99, 100>> }

\* every combination, for a run of no case or of one case
SingleInputs ==
    { [returns |-> sp[1], infl_rate |-> sp[2], start_value |-> vw[1],
       withdrawal |-> vw[2], years |-> y, num_cases |-> n] :
        sp \in SeriesPairs, vw \in Portfolios, y \in YearTriples,
        n \in 0..1 }

\* runs of several cases
RepeatInputs ==
    { [returns |-> <<10, -50, 0>>, infl_rate |-> <<0, 50, 0>>,
       start_value |-> vw[1], withdrawal |-> vw[2], years |-> y,
       num_cases |-> n] :
        vw \in { <<100, 150>>, <<300, 100>>, <<101, 100>> },
        y \in { <<0, 1, 2>>, <<1, 2, 3>> },
        n \in 2..MaxCases }

\* long retirements on flat series, and empty data files
EdgeInputs ==
    { [returns |-> <<0>>, infl_rate |-> <<0>>, start_value |-> 300,
       withdrawal |-> 1, years |-> <<97, 98, 99>>, num_cases |-> 1],
      [returns |-> <<0>>, infl_rate |-> <<0>>, start_value |-> 100,
       withdrawal |-> 150, years |-> <<97, 98, 99>>, num_cases |-> 1],
      [returns |-> <<0>>, infl_rate |-> <<0>>, start_value |-> 300,
       withdrawal |-> 1, years |-> <<96, 97, 98>>, num_cases |-> 1],
      [returns |-> <<>>, infl_rate |-> <<0>>, start_value |-> 100,
       withdrawal |-> 10, years |-> <<1, 2, 3>>, num_cases |-> 1],
      [returns |-> <<0>>, infl_rate |-> <<>>, start_value |-> 100,
       withdrawal |-> 10, years |-> <<0, 1, 2>>, num_cases |-> 1] }

Inputs == SingleInputs \cup RepeatInputs \cup EdgeInputs

\* ---------------------------------------------------------------- state
VARIABLES
    returns,            \* investment_type_args[invest_type]
    infl_rate,
    start_value, withdrawal,
    min_years, most_likely_years, max_years,
    num_cases,
    pc,                 \* position in the program
    err,                \* the exception that ended the program, if any
    case_count, bankrupt_count, outcome,
    investments, start_year, duration,
    lifespan_returns, lifespan_infl,
    index, withdraw_inf_adj, bankrupt,
    odds,               \* result of bankrupt_prob, in tenths of a percent
    draws,              \* history: (start_year, duration) of each finished case
    flags,              \* history: bankrupt flag of each finished case
    used                \* history: (return, inflation) of each year processed
                        \* in the current case

params == <<returns, infl_rate, start_value, withdrawal,
            min_years, most_likely_years, max_years, num_cases>>

trial == <<investments, start_year, duration, lifespan_returns,
           lifespan_infl, index, withdraw_inf_adj, bankrupt, used>>

totals == <<case_count, bankrupt_count, outcome, draws, flags>>

vars == <<params, pc, err, trial, totals, odds>>

\* ----------------------------------------------------- pure computations
\* int(): truncation toward zero of the quotient n / d, d > 0
IntTrunc(n, d) == IF n >= 0 THEN n \div d ELSE -((-n) \div d)

\* int(x * (1 + rate)) for a rate of p percent
Scaled(x, p) == IntTrunc(x * (Percent + p), Percent)

\* [i for i in range(start_year, end_year)]
Lifespan(s, e) == [k \in 1..(IF e > s THEN e - s ELSE 0) |-> s + k - 1]

\* variant of Wrapped: an index past the end reuses the last record
Clamped(series, lifespan) ==
    [k \in 1..Len(lifespan) |->
        series[(IF lifespan[k] < Len(series) THEN lifespan[k]
                ELSE Len(series) - 1) + 1]]

\* series[i % len(series)] for each i of the lifespan, in order
Wrapped(series, lifespan) ==
    [k \in 1..Len(lifespan) |-> series[(lifespan[k] % Len(series)) + 1]]

\* round(100 * bankrupt_count / total, 1), in tenths of a percent; Python
\* rounds an exact half to the even neighbour
RoundTenths(count, total) ==
    LET n == 1000 * count
        q == n \div total
        r == n % total
    IN  IF 2 * r < total THEN q
        ELSE IF 2 * r > total THEN q + 1
        ELSE IF q % 2 = 0 THEN q ELSE q + 1

\* --------------------------------------------------------------- initial
Init ==
    /\ \E c \in Inputs :
          /\ returns = c.returns
          /\ infl_rate = c.infl_rate
          /\ start_value = c.start_value
          /\ withdrawal = c.withdrawal
          /\ min_years = c.years[1]
          /\ most_likely_years = c.years[2]
          /\ max_years = c.years[3]
          /\ num_cases = c.num_cases
    /\ pc = "validate"
    /\ err = "none"
    /\ case_count = 0
    /\ bankrupt_count = 0
    /\ outcome = <<>>
    /\ investments = 0
    /\ start_year = 0
    /\ duration = 0
    /\ lifespan_returns = <<>>
    /\ lifespan_infl = <<>>
    /\ index = 0
    /\ withdraw_inf_adj = 0   \* not bound before the first year of the first case
    /\ bankrupt = "no"
    /\ odds = 0
    /\ draws = <<>>
    /\ flags = <<>>
    /\ used = <<>>

\* --------------------------------------------------------------- actions
\* check for erroneous input: sys.exit(1)
ValidateReject ==
    /\ pc = "validate"
    /\ \/ ~(min_years < most_likely_years /\ most_likely_years < max_years)
       \/ max_years > MaxYearsLimit
    /\ pc' = "exit"
    /\ UNCHANGED <<params, err, trial, totals, odds>>

\* input accepted: main() calls montecarlo, which clears its counters
ValidateAccept ==
    /\ pc = "validate"
    /\ min_years < most_likely_years /\ most_likely_years < max_years
    /\ ~(max_years > MaxYearsLimit)
    /\ pc' = "loop"
    /\ case_count' = 0
    /\ bankrupt_count' = 0
    /\ outcome' = <<>>
    /\ UNCHANGED <<params, err, trial, draws, flags, odds>>

\* variant of StartTrial: the bankrupt flag is not cleared for the new case
StartTrialKeepsFlag ==
    /\ pc = "loop"
    /\ case_count < num_cases
    /\ Len(returns) > 0
    /\ \E s \in 0..(Len(returns) - 1), d \in min_years..max_years :
          /\ d > 0 => Len(infl_rate) > 0
          /\ investments' = start_value
          /\ start_year' = s
          /\ duration' = d
          /\ lifespan_returns' = Wrapped(returns, Lifespan(s, s + d))
          /\ lifespan_infl' = Wrapped(infl_rate, Lifespan(s, s + d))
          /\ pc' = IF d = 0 THEN "record" ELSE "years"
    /\ bankrupt' = bankrupt
    /\ index' = 0
    /\ used' = <<>>
    /\ UNCHANGED <<params, err, withdraw_inf_adj, totals, odds>>

\* variant of StartTrial: the balance of the previous case is kept
StartTrialKeepsBalance ==
    /\ pc = "loop"
    /\ case_count < num_cases
    /\ Len(returns) > 0
    /\ \E s \in 0..(Len(returns) - 1), d \in min_years..max_years :
          /\ d > 0 => Len(infl_rate) > 0
          /\ investments' = IF case_count = 0 THEN start_value
                            ELSE investments
          /\ start_year' = s
          /\ duration' = d
          /\ lifespan_returns' = Wrapped(returns, Lifespan(s, s + d))
          /\ lifespan_infl' = Wrapped(infl_rate, Lifespan(s, s + d))
          /\ pc' = IF d = 0 THEN "record" ELSE "years"
    /\ bankrupt' = "no"
    /\ index' = 0
    /\ used' = <<>>
    /\ UNCHANGED <<params, err, withdraw_inf_adj, totals, odds>>

\* top of one case: the draws and the temporary lists.  random.randrange
\* gives any index of returns; random.triangular gives a float N with
\* min_years <= N <= max_years, and int() drops its fractional part.
StartTrial ==
    /\ pc = "loop"
    /\ case_count < num_cases
    /\ Len(returns) > 0
    /\ \E s \in 0..(Len(returns) - 1), d \in min_years..max_years :
          /\ d > 0 => Len(infl_rate) > 0
          /\ investments' = start_value
          /\ start_year' = s
          /\ duration' = d
          /\ lifespan_returns' = Wrapped(returns, Lifespan(s, s + d))
          /\ lifespan_infl' = Wrapped(infl_rate, Lifespan(s, s + d))
          /\ pc' = IF d = 0 THEN "record" ELSE "years"
    /\ bankrupt' = "no"
    /\ index' = 0
    /\ used' = <<>>
    /\ UNCHANGED <<params, err, withdraw_inf_adj, totals, odds>>

\* top of one case with an empty series: random.randrange(0, 0) raises
\* ValueError, i % len(infl_rate) raises ZeroDivisionError
TrialFails ==
    /\ pc = "loop"
    /\ case_count < num_cases
    /\ \/ /\ Len(returns) = 0
          /\ err' = "ValueError"
       \/ /\ Len(returns) > 0
          /\ Len(infl_rate) = 0
          /\ max_years > 0
          /\ err' = "ZeroDivisionError"
    /\ pc' = "error"
    /\ UNCHANGED <<params, trial, totals, odds>>

\* variant of YearStep: only a negative balance ends the case
YearStepStrict ==
    /\ pc = "years"
    /\ index < Len(lifespan_returns)
    /\ LET i == lifespan_returns[index + 1]
           infl == lifespan_infl[index + 1]
           w == IF index = 0 THEN withdrawal
                ELSE Scaled(withdraw_inf_adj, infl)
           v == Scaled(investments - w, i)
       IN  /\ withdraw_inf_adj' = w
           /\ investments' = v
           /\ used' = Append(used, <<i, infl>>)
           /\ IF v < 0
              THEN /\ bankrupt' = "yes"
                   /\ index' = index
                   /\ pc' = "record"
              ELSE /\ bankrupt' = bankrupt
                   /\ index' = index + 1
                   /\ pc' = IF index + 1 < Len(lifespan_returns)
                            THEN "years" ELSE "record"
    /\ UNCHANGED <<params, err, start_year, duration, lifespan_returns,
                   lifespan_infl, totals, odds>>

\* variant of YearStep: the loop goes on after the balance is exhausted
YearStepNoBreak ==
    /\ pc = "years"
    /\ index < Len(lifespan_returns)
    /\ LET i == lifespan_returns[index + 1]
           infl == lifespan_infl[index + 1]
           w == IF index = 0 THEN withdrawal
                ELSE Scaled(withdraw_inf_adj, infl)
           v == Scaled(investments - w, i)
       IN  /\ withdraw_inf_adj' = w
           /\ investments' = v
           /\ used' = Append(used, <<i, infl>>)
           /\ bankrupt' = IF v <= 0 THEN "yes" ELSE bankrupt
           /\ index' = index + 1
           /\ pc' = IF index + 1 < Len(lifespan_returns)
                    THEN "years" ELSE "record"
    /\ UNCHANGED <<params, err, start_year, duration, lifespan_returns,
                   lifespan_infl, totals, odds>>

\* variant of YearStep: the balance grows before the withdrawal is taken
YearStepGrowFirst ==
    /\ pc = "years"
    /\ index < Len(lifespan_returns)
    /\ LET i == lifespan_returns[index + 1]
           infl == lifespan_infl[index + 1]
           w == IF index = 0 THEN withdrawal
                ELSE Scaled(withdraw_inf_adj, infl)
           v == Scaled(investments, i) - w
       IN  /\ withdraw_inf_adj' = w
           /\ investments' = v
           /\ used' = Append(used, <<i, infl>>)
           /\ IF v <= 0
              THEN /\ bankrupt' = "yes"
                   /\ index' = index
                   /\ pc' = "record"
              ELSE /\ bankrupt' = bankrupt
                   /\ index' = index + 1
                   /\ pc' = IF index + 1 < Len(lifespan_returns)
                            THEN "years" ELSE "record"
    /\ UNCHANGED <<params, err, start_year, duration, lifespan_returns,
                   lifespan_infl, totals, odds>>

\* one year of retirement
YearStep ==
    /\ pc = "years"
    /\ index < Len(lifespan_returns)
    /\ LET i == lifespan_returns[index + 1]
           infl == lifespan_infl[index + 1]
           w == IF index = 0 THEN withdrawal
                ELSE Scaled(withdraw_inf_adj, infl)
           v == Scaled(investments - w, i)
       IN  /\ withdraw_inf_adj' = w
           /\ investments' = v
           /\ used' = Append(used, <<i, infl>>)
           /\ IF v <= 0
              THEN /\ bankrupt' = "yes"
                   /\ index' = index
                   /\ pc' = "record"
              ELSE /\ bankrupt' = bankrupt
                   /\ index' = index + 1
                   /\ pc' = IF index + 1 < Len(lifespan_returns)
                            THEN "years" ELSE "record"
    /\ UNCHANGED <<params, err, start_year, duration, lifespan_returns,
                   lifespan_infl, totals, odds>>

\* variant of EndTrial: a bankrupt case is counted but leaves no outcome
EndTrialDropsBankrupt ==
    /\ pc = "record"
    /\ IF bankrupt = "yes"
       THEN /\ outcome' = outcome
            /\ bankrupt_count' = bankrupt_count + 1
       ELSE /\ outcome' = Append(outcome, investments)
            /\ bankrupt_count' = bankrupt_count
    /\ case_count' = case_count + 1
    /\ draws' = Append(draws, <<start_year, duration>>)
    /\ flags' = Append(flags, bankrupt)
    /\ pc' = "loop"
    /\ UNCHANGED <<params, err, trial, odds>>

\* variant of EndTrial: the bankruptcy count is the count of zero outcomes
EndTrialCountsZeros ==
    /\ pc = "record"
    /\ IF bankrupt = "yes"
       THEN /\ outcome' = Append(outcome, 0)
            /\ bankrupt_count' = bankrupt_count + 1
       ELSE /\ outcome' = Append(outcome, investments)
            /\ bankrupt_count' = IF investments = 0 THEN bankrupt_count + 1
                                 ELSE bankrupt_count
    /\ case_count' = case_count + 1
    /\ draws' = Append(draws, <<start_year, duration>>)
    /\ flags' = Append(flags, bankrupt)
    /\ pc' = "loop"
    /\ UNCHANGED <<params, err, trial, odds>>

\* record the outcome of the case
EndTrial ==
    /\ pc = "record"
    /\ IF bankrupt = "yes"
       THEN /\ outcome' = Append(outcome, 0)
            /\ bankrupt_count' = bankrupt_count + 1
       ELSE /\ outcome' = Append(outcome, investments)
            /\ bankrupt_count' = bankrupt_count
    /\ case_count' = case_count + 1
    /\ draws' = Append(draws, <<start_year, duration>>)
    /\ flags' = Append(flags, bankrupt)
    /\ pc' = "loop"
    /\ UNCHANGED <<params, err, trial, odds>>

\* the loop ends: return outcome, bankrupt_count
Return ==
    /\ pc = "loop"
    /\ ~(case_count < num_cases)
    /\ pc' = "stats"
    /\ UNCHANGED <<params, err, trial, totals, odds>>

\* bankrupt_prob with at least one outcome
BankruptProb ==
    /\ pc = "stats"
    /\ Len(outcome) # 0
    /\ odds' = RoundTenths(bankrupt_count, Len(outcome))
    /\ pc' = "done"
    /\ UNCHANGED <<params, err, trial, totals>>

\* bankrupt_prob with no outcome: the division raises ZeroDivisionError
BankruptProbFails ==
    /\ pc = "stats"
    /\ Len(outcome) = 0
    /\ err' = "ZeroDivisionError"
    /\ pc' = "error"
    /\ UNCHANGED <<params, trial, totals, odds>>

Next ==
    \/ ValidateReject
    \/ ValidateAccept
    \/ StartTrial
    \/ TrialFails
    \/ YearStep
    \/ EndTrial
    \/ Return
    \/ BankruptProb
    \/ BankruptProbFails

Spec == Init /\ [][Next]_vars

\* the interpreter runs the program to its end
LiveSpec == Init /\ [][Next]_vars /\ WF_vars(Next)


\* ------------------------------------------------------------ properties
\* number of finished cases whose bankrupt flag was 'yes'
CountYes == Cardinality({k \in 1..Len(flags) : flags[k] = "yes"})

\* y is the quotient n / d with its fractional part dropped, d > 0
IsIntOf(y, n, d) ==
    IF n >= 0 THEN y * d <= n /\ n < (y + 1) * d
    ELSE y * d >= n /\ n > (y - 1) * d

Last(seq) == seq[Len(seq)]

ValidInput ==
    /\ num_cases >= 1
    /\ min_years < most_likely_years /\ most_likely_years < max_years
    /\ max_years <= 98
    /\ Len(returns) > 0 /\ Len(infl_rate) > 0

\* C1: at every loop boundary the outcome list has one entry per finished
\* case, and for a valid input montecarlo returns with num_cases outcomes.
C1_OutcomeLength ==
    /\ [](pc = "loop" => Len(outcome) = case_count)
    /\ [](pc \in {"stats", "done"} => Len(outcome) = num_cases)
    /\ (ValidInput => <>(pc = "stats" /\ Len(outcome) = num_cases))

C1_Witness ==
    /\ pc = "stats"
    /\ ValidInput
    /\ Len(outcome) = num_cases
    /\ \E j, k \in 1..Len(flags) : flags[j] = "yes" /\ flags[k] = "no"

\* C2: for a case of at least one year with a positive starting value, the
\* case is flagged bankrupt exactly when its recorded outcome is 0.
C2_FlagIffZero ==
    \A k \in 1..Len(outcome) :
        (draws[k][2] >= 1 /\ start_value > 0) =>
            (flags[k] = "yes" <=> outcome[k] = 0)

\* a case whose balance reached exactly 0 and was recorded as bankrupt
C2_Witness ==
    /\ pc = "loop"
    /\ Len(outcome) >= 1
    /\ start_value > 0
    /\ duration >= 1
    /\ investments = 0
    /\ Last(flags) = "yes"
    /\ Last(outcome) = 0

\* C3: bankrupt_count is the number of cases flagged bankrupt, between 0 and
\* case_count, and the odds are 100 * bankrupt_count / num_cases rounded to
\* one decimal place, between 0 and 100.
C3_BankruptCountAndOdds ==
    /\ bankrupt_count = CountYes
    /\ 0 <= bankrupt_count /\ bankrupt_count <= case_count
    /\ pc = "done" =>
          /\ 0 <= odds /\ odds <= 1000
          /\ 2 * odds * num_cases - 2000 * bankrupt_count <= num_cases
          /\ 2000 * bankrupt_count - 2 * odds * num_cases <= num_cases

\* odds that need rounding: one bankruptcy in three cases
C3_Witness ==
    /\ pc = "done"
    /\ num_cases = 3
    /\ bankrupt_count = 1
    /\ odds = 333

\* C4: a year that leaves the balance at or below 0 ends the case at once:
\* no later year is processed, the case is flagged and 0 is recorded; with
\* 100 invested, 150 withdrawn and no return the balance is -50.
C4_StopsWhenBankrupt ==
    /\ [](pc = "years" => bankrupt = "no" /\ (Len(used) > 0 => investments > 0))
    /\ [][(pc = "years" /\ investments' <= 0) =>
             (pc' = "record" /\ bankrupt' = "yes")]_vars
    /\ [][(pc = "record" /\ bankrupt = "yes") =>
             /\ outcome' = Append(outcome, 0)
             /\ investments' = investments
             /\ withdraw_inf_adj' = withdraw_inf_adj
             /\ used' = used]_vars
    /\ []((/\ start_value = 100 /\ withdrawal = 150
           /\ Len(used) >= 1 /\ used[1] = <<0, 0>>) =>
             /\ investments = -50
             /\ bankrupt = "yes"
             /\ Len(used) = 1
             /\ (pc = "loop" => Last(outcome) = 0))

\* the example case, ended in its first year with years left over
C4_Witness ==
    /\ pc = "loop"
    /\ start_value = 100 /\ withdrawal = 150
    /\ used = << <<0, 0>> >>
    /\ duration > 1
    /\ investments = -50
    /\ Last(flags) = "yes"
    /\ Last(outcome) = 0

\* C5: a run of 0 cases is rejected before the statistics stage and never
\* reaches the division of bankrupt_prob.
C5_ZeroCasesRejected ==
    num_cases = 0 => (pc # "stats" /\ err # "ZeroDivisionError")

\* C6: whenever montecarlo runs, min < most likely < max and max <= 98.
C6_YearsValidated ==
    pc \notin {"validate", "exit"} =>
        /\ min_years < most_likely_years
        /\ most_likely_years < max_years
        /\ max_years <= 98

\* C7: the j-th year of a case with start index s uses returns[(s + j) mod L]
\* and infl_rate[(s + j) mod L_infl], in order.
C7_Wraparound ==
    /\ \A k \in 1..Len(used) :
          used[k] = << returns[((start_year + k - 1) % Len(returns)) + 1],
                       infl_rate[((start_year + k - 1) % Len(infl_rate)) + 1] >>
    /\ pc \in {"years", "record"} =>
          /\ Len(lifespan_returns) = duration
          /\ Len(lifespan_infl) = duration
    /\ (pc = "record" /\ bankrupt = "no") => Len(used) = duration

\* start at the last record, two years, series of different lengths
C7_Witness ==
    /\ start_year = Len(returns) - 1
    /\ duration = 2
    /\ Len(returns) # Len(infl_rate)
    /\ Len(used) = 2
    /\ used[1][1] = returns[Len(returns)]
    /\ used[2][1] = returns[1]

\* C8: the first year withdraws W0; a later year withdraws the integer part
\* of the previous withdrawal times (1 + inflation); the balance is reduced
\* by the withdrawal and then grown, with the integer part taken.  2,000,000
\* with 80,000 withdrawn and a 10% return leaves 2,112,000, not bankrupt.
C8_Recurrence ==
    /\ [][pc = "years" =>
             /\ IF Len(used) = 0
                THEN withdraw_inf_adj' = withdrawal
                ELSE IsIntOf(withdraw_inf_adj',
                             withdraw_inf_adj
                               * (100 + lifespan_infl[Len(used) + 1]), 100)
             /\ IsIntOf(investments',
                        (investments - withdraw_inf_adj')
                          * (100 + lifespan_returns[Len(used) + 1]), 100)]_vars
    /\ []((/\ start_value = 2000000 /\ withdrawal = 80000
           /\ used = << <<10, 0>> >>) =>
             /\ investments = 2112000
             /\ withdraw_inf_adj = 80000
             /\ bankrupt = "no"
             /\ (pc = "loop" /\ duration = 1) =>
                   (Last(outcome) = 2112000 /\ Last(flags) = "no"))

\* the example as a one-year case, recorded
C8_Witness ==
    /\ pc = "loop"
    /\ start_value = 2000000 /\ withdrawal = 80000
    /\ duration = 1
    /\ used = << <<10, 0>> >>
    /\ Last(outcome) = 2112000

\* C9: a case of duration 0 has no year, is not flagged, leaves
\* bankrupt_count alone and records the starting value.
C9_ZeroDuration ==
    /\ [][(pc = "record" /\ duration = 0) =>
             /\ outcome' = Append(outcome, start_value)
             /\ bankrupt_count' = bankrupt_count
             /\ pc' = "loop"]_vars
    /\ []((pc = "record" /\ duration = 0) =>
             /\ lifespan_returns = <<>> /\ lifespan_infl = <<>>
             /\ used = <<>>
             /\ bankrupt = "no")
    /\ [](\A k \in 1..Len(draws) :
             draws[k][2] = 0 => (outcome[k] = start_value /\ flags[k] = "no"))

\* a case of duration 0 recorded right after a bankrupt case
C9_Witness ==
    /\ pc = "loop"
    /\ Len(draws) >= 2
    /\ Last(draws)[2] = 0
    /\ flags[Len(flags) - 1] = "yes"
    /\ start_value > 0
    /\ Last(outcome) = start_value

\* C10: every case starts from start_value with the flag cleared and
\* withdraws W0 in its first year, and cases with the same draw have the same
\* outcome and flag whatever came before them.
C10_Independence ==
    /\ (pc = "years" /\ Len(used) = 0) =>
          (investments = start_value /\ bankrupt = "no")
    /\ Len(used) = 1 => withdraw_inf_adj = withdrawal
    /\ \A j, k \in 1..Len(draws) :
          draws[j] = draws[k] =>
              (outcome[j] = outcome[k] /\ flags[j] = flags[k])

\* the same solvent draw before and after a bankrupt case that inflated
\* the withdrawal
C10_Witness ==
    /\ Len(draws) = 3
    /\ draws[1] = draws[3]
    /\ flags[1] = "no"
    /\ flags[2] = "yes" /\ draws[2][2] >= 2
    /\ outcome[1] > 0

=============================================================================
